---------------------------- MODULE Spec2Model ----------------------------
(***************************************************************************)
(* Model of the blueprint validation core of hpc-toolkit, package config:  *)
(* DeploymentConfig.validate and the stages it runs (validateVars,         *)
(* executeValidators, validateModules, validateModuleSettings), the        *)
(* built-in validators with testInputList and getStringValue.              *)
(*                                                                         *)
(* Go strings that the code parses (validator input values, the names of   *)
(* deployment variables) are sequences of one-character strings; strings   *)
(* that are only compared (validator names, module IDs, sources, kinds,    *)
(* input names) are TLA+ strings.                                          *)
(***************************************************************************)
EXTENDS Integers, Sequences, FiniteSets, TLC

VARIABLES
    dc,           \* the DeploymentConfig: Config.{Vars, ValidationLevel, Validators, DeploymentGroups} and ModulesInfo
    pc,           \* the function validate() is in, or how it ended
    validatorIdx, \* executeValidators: index of the next ValidatorConfig of the range loop
    errored,      \* executeValidators: local `errored`
    warned,       \* executeValidators: local `warned`
    processed,    \* indices of dc.Config.Validators whose loop body has completed, in order
    outcomes,     \* for each of them, the error its check returned (nil when it passed)
    checkCalls,   \* number of invocations of a registered validator function
    remoteCalls,  \* the calls made to package validators (the remote collaborator), in order
    log,          \* what was written through package log, in order
    modIdx,       \* validateModules / validateModuleSettings: position in the nested range loops
    examined,     \* validateModules: the <<group, module>> pairs looked at, in order
    settingsExamined, \* validateModuleSettings: the <<group, module>> pairs looked at, in order
    returned,     \* the stages that have returned to validate(), with the error returned, in order
    args,         \* arguments of the function under call (function-level specifications)
    ret,          \* its result
    dict,         \* the Dict d: dict.m is the address of its map in `heap`, 0 for the nil map
    heap,         \* the Go maps allocated so far: heap[a] is the content of the map at address a
    items,        \* the addresses of the maps Dict.Items has returned to the caller
    stored        \* history: for each key given to Dict.Set, the value of its last Set

vars == <<dc, pc, validatorIdx, errored, warned, processed, outcomes, checkCalls, remoteCalls, log,
          modIdx, examined, settingsExamined, returned, args, ret,
          dict, heap, items, stored>>

-----------------------------------------------------------------------------
(* Bounds of the model *)

\* longest list of declared validators
MaxValidators == 2
\* most dot-separated components in the body of a generated reference
MaxParts == 3
\* most modules in one deployment group
MaxModules == 2
\* the declared inputs of a schema, when validateSettings is called on its own
MaxInputs == 2
\* most Go maps allocated while a Dict is used
MaxMaps == 3

-----------------------------------------------------------------------------
(* Go values *)

\* error values: nil, or a message with the values formatted into it
NoErr == [msg |-> "nil", arg |-> <<>>]
Err(m, a) == [msg |-> m, arg |-> a]
\* a run-time panic, which unwinds the whole call stack and ends the process
E_indexRange == "panic: runtime error: index out of range [1] with length 1"
Panic(m) == [msg |-> m, arg |-> <<>>]
IsPanic(e) == e.msg = E_indexRange

\* interface{} values as they come out of the YAML decoder
StringVal(s) == [kind |-> "string", s |-> s]
NumberVal == [kind |-> "number", s |-> <<>>]
MapVal == [kind |-> "map", s |-> <<>>]
NilVal == [kind |-> "nil", s |-> <<>>]

Range(f) == {f[k] : k \in DOMAIN f}
Last(s) == s[Len(s)]

\* all maps from a subset of keys to values
PartialMaps(keys, values) == UNION {[S -> values] : S \in SUBSET keys}

\* all sequences over S of length lo..hi
SeqsOf(S, lo, hi) == UNION {[1..n -> S] : n \in lo..hi}

\* all duplicate-free sequences over S
RECURSIVE Perms(_)
Perms(S) ==
    IF S = {} THEN {<<>>}
    ELSE UNION {{<<x>> \o p : p \in Perms(S \ {x})} : x \in S}

-----------------------------------------------------------------------------
(* Strings *)

S_var == <<"v", "a", "r">>
S_mod == <<"m", "o", "d">>
S_x == <<"x">>
S_y == <<"y">>
S_project_id == <<"p", "r", "o", "j", "e", "c", "t", "_", "i", "d">>
S_labels == <<"l", "a", "b", "e", "l", "s">>
S_region == <<"r", "e", "g", "i", "o", "n">>
S_zone == <<"z", "o", "n", "e">>

\* strings.Split(s, "."): the pieces between the dots, one more than there are dots
RECURSIVE Split(_)
Split(s) ==
    IF \A k \in 1..Len(s) : s[k] # "."
    THEN <<s>>
    ELSE LET d == CHOOSE k \in 1..Len(s) : s[k] = "." /\ \A j \in 1..(k - 1) : s[j] # "."
         IN <<SubSeq(s, 1, d - 1)>> \o Split(SubSeq(s, d + 1, Len(s)))

\* strings.Join(parts, ".")
RECURSIVE Join(_)
Join(parts) ==
    IF Len(parts) = 0 THEN <<>>
    ELSE IF Len(parts) = 1 THEN parts[1]
    ELSE parts[1] \o <<".">> \o Join(Tail(parts))

\* IsLiteralVariable: the whole string is "((" ... "))"
IsLiteralVariable(str) ==
    /\ Len(str) >= 4
    /\ str[1] = "(" /\ str[2] = "("
    /\ str[Len(str) - 1] = ")" /\ str[Len(str)] = ")"

\* HandleLiteralVariable: the string between the delimiters
HandleLiteralVariable(str) == SubSeq(str, 3, Len(str) - 2)

Ref(body) == <<"(", "(">> \o body \o <<")", ")">>

-----------------------------------------------------------------------------
(* getStringValue *)

E_cast == "the value %s cannot be cast to a string"
E_notString == "the deployment variable %s is not a string"
E_undefined == "the value %s is not a deployment variable or was not defined"

\* (dc *DeploymentConfig) getStringValue(inputReference interface{}) (string, error)
getStringValue(Vars, inputReference) ==
    IF inputReference.kind # "string"
    THEN [val |-> <<>>, err |-> Err(E_cast, <<>>)]
    ELSE IF IsLiteralVariable(inputReference.s)
    THEN LET varSlice == Split(HandleLiteralVariable(inputReference.s))
         IN IF Len(varSlice) < 2
            THEN \* varSlice[1] of a one-element slice
                 [val |-> <<>>, err |-> Panic(E_indexRange)]
            ELSE LET varSrc == varSlice[1]
                     varName == varSlice[2]
                 IN IF varSrc = S_var /\ varName \in DOMAIN Vars
                    THEN IF Vars[varName].kind = "string"
                         THEN [val |-> Vars[varName].s, err |-> NoErr]
                         ELSE [val |-> <<>>, err |-> Err(E_notString, <<>>)]
                    ELSE [val |-> <<>>, err |-> Err(E_undefined, <<>>)]
    ELSE [val |-> <<>>, err |-> Err(E_undefined, <<>>)]

-----------------------------------------------------------------------------
(* testInputList *)

E_requiredMissing == "at least one required input was not provided to %s"
E_onlyInputs == "only %v inputs %s should be provided to %s"
L_requiredMissing == "a required input %s was not provided to %s!"

\* the log lines of the first loop, one per required input that is missing
RECURSIVE missingLog(_, _)
missingLog(inputs, requiredInputs) ==
    IF Len(requiredInputs) = 0 THEN <<>>
    ELSE (IF Head(requiredInputs) \in DOMAIN inputs THEN <<>> ELSE <<L_requiredMissing>>)
         \o missingLog(inputs, Tail(requiredInputs))

\* faulty variant: the comparison of the lengths is left out
testInputList_noLength(function, inputs, requiredInputs) ==
    IF \E k \in 1..Len(requiredInputs) : requiredInputs[k] \notin DOMAIN inputs
    THEN Err(E_requiredMissing, <<function>>)
    ELSE NoErr

\* faulty variant: only the lengths are compared
testInputList_onlyLength(function, inputs, requiredInputs) ==
    IF Len(requiredInputs) # Cardinality(DOMAIN inputs)
    THEN Err(E_onlyInputs, <<function>>)
    ELSE NoErr

\* testInputList(function string, inputs map[string]interface{}, requiredInputs []string) error
testInputList(function, inputs, requiredInputs) ==
    LET errored_ == \E k \in 1..Len(requiredInputs) : requiredInputs[k] \notin DOMAIN inputs
    IN IF errored_
       THEN Err(E_requiredMissing, <<function>>)
       ELSE IF Len(requiredInputs) # Cardinality(DOMAIN inputs)
       THEN Err(E_onlyInputs, <<function>>)
       ELSE NoErr

-----------------------------------------------------------------------------
(* The built-in validators and their registry *)

testProjectExistsName == "test_project_exists"
testRegionExistsName == "test_region_exists"
testZoneExistsName == "test_zone_exists"
testZoneInRegionName == "test_zone_in_region"

E_wrongValidator == "passed wrong validator to %s implementation"
E_remote == "remote check failed"
L_funcErrorMsg == "validator %s failed"

\* what package validators can answer to one call: nil or an error
RemoteAnswers == {NoErr, Err(E_remote, <<>>)}

\* dc.getStringValue(validator.Inputs[name]) for the names of `order`, one after
\* the other, up to the first error: the strings resolved and that error
RECURSIVE resolveInputs(_, _, _)
resolveInputs(Vars, inputs, order) ==
    IF Len(order) = 0 THEN [vals |-> <<>>, err |-> NoErr]
    ELSE LET r == getStringValue(Vars, inputs[Head(order)])
         IN IF r.err # NoErr THEN [vals |-> <<>>, err |-> r.err]
            ELSE LET rest == resolveInputs(Vars, inputs, Tail(order))
                 IN [vals |-> <<r.val>> \o rest.vals, err |-> rest.err]

\* The body the four validators share. requiredInputs is the list given to
\* testInputList, order the order of the getStringValue calls, logsInputErr
\* whether funcErrorMsg is logged when testInputList fails, remoteFn the
\* function of package validators called with the resolved strings and
\* remoteErr what that call answers.
\* Result: the error returned, the log lines written, the remote calls made.
validatorBody(funcName, requiredInputs, order, logsInputErr, remoteFn, Vars, validator, remoteErr) ==
    IF validator.Validator # funcName
    THEN [err |-> Err(E_wrongValidator, <<funcName>>), log |-> <<>>, remote |-> <<>>]
    ELSE LET e1 == testInputList(validator.Validator, validator.Inputs, requiredInputs)
         IN IF e1 # NoErr
            THEN [err |-> e1,
                  log |-> missingLog(validator.Inputs, requiredInputs)
                          \o (IF logsInputErr THEN <<L_funcErrorMsg>> ELSE <<>>),
                  remote |-> <<>>]
            ELSE LET r == resolveInputs(Vars, validator.Inputs, order)
                 IN IF IsPanic(r.err)
                    THEN [err |-> r.err, log |-> <<>>, remote |-> <<>>]
                    ELSE IF r.err # NoErr
                    THEN [err |-> r.err, log |-> <<L_funcErrorMsg>>, remote |-> <<>>]
                    ELSE [err |-> remoteErr,
                          log |-> IF remoteErr # NoErr THEN <<L_funcErrorMsg>> ELSE <<>>,
                          remote |-> <<[fn |-> remoteFn, args |-> r.vals]>>]

testProjectExists(Vars, validator, remoteErr) ==
    validatorBody(testProjectExistsName, <<"project_id">>, <<"project_id">>, TRUE,
                  "TestProjectExists", Vars, validator, remoteErr)

testRegionExists(Vars, validator, remoteErr) ==
    validatorBody(testRegionExistsName, <<"project_id", "region">>,
                  <<"project_id", "region">>, FALSE,
                  "TestRegionExists", Vars, validator, remoteErr)

testZoneExists(Vars, validator, remoteErr) ==
    validatorBody(testZoneExistsName, <<"project_id", "zone">>,
                  <<"project_id", "zone">>, FALSE,
                  "TestZoneExists", Vars, validator, remoteErr)

testZoneInRegion(Vars, validator, remoteErr) ==
    validatorBody(testZoneInRegionName, <<"project_id", "region", "zone">>,
                  <<"project_id", "zone", "region">>, FALSE,
                  "TestZoneInRegion", Vars, validator, remoteErr)

\* getValidators: the names of the registry
getValidators ==
    {testProjectExistsName, testRegionExistsName, testZoneExistsName, testZoneInRegionName}

\* f(validator) for f := implementedValidators[name]
callValidator(name, Vars, validator, remoteErr) ==
    CASE name = testProjectExistsName -> testProjectExists(Vars, validator, remoteErr)
      [] name = testRegionExistsName -> testRegionExists(Vars, validator, remoteErr)
      [] name = testZoneExistsName -> testZoneExists(Vars, validator, remoteErr)
      [] name = testZoneInRegionName -> testZoneInRegion(Vars, validator, remoteErr)

\* the list each validator gives to testInputList
requiredInputsOf(name) ==
    CASE name = testProjectExistsName -> <<"project_id">>
      [] name = testRegionExistsName -> <<"project_id", "region">>
      [] name = testZoneExistsName -> <<"project_id", "zone">>
      [] name = testZoneInRegionName -> <<"project_id", "region", "zone">>

-----------------------------------------------------------------------------
(* validateVars *)

E_labels == "vars.labels must be a map"
E_nilVar == "deployment variable %s was not set"
L_noProjectID == "WARNING: No project_id in deployment variables"

\* faulty variant: the nil check is left out
validateVars_noNilCheck(Vars) ==
    IF S_labels \in DOMAIN Vars /\ Vars[S_labels].kind # "map"
    THEN {Err(E_labels, <<>>)}
    ELSE {NoErr}

\* faulty variant: a missing project_id is an error
validateVars_projectRequired(Vars) ==
    IF S_project_id \notin DOMAIN Vars
    THEN {Err(E_nilVar, S_project_id)}
    ELSE IF S_labels \in DOMAIN Vars /\ Vars[S_labels].kind # "map"
    THEN {Err(E_labels, <<>>)}
    ELSE IF \E key \in DOMAIN Vars : Vars[key].kind = "nil"
    THEN {Err(E_nilVar, key) : key \in {k \in DOMAIN Vars : Vars[k].kind = "nil"}}
    ELSE {NoErr}

\* (dc DeploymentConfig) validateVars() error: the errors it can return. The
\* range over the map visits the keys in an order that is not fixed, so with
\* several nil values any of their keys can be the one named.
validateVars(Vars) ==
    IF S_labels \in DOMAIN Vars /\ Vars[S_labels].kind # "map"
    THEN {Err(E_labels, <<>>)}
    ELSE IF \E key \in DOMAIN Vars : Vars[key].kind = "nil"
    THEN {Err(E_nilVar, key) : key \in {k \in DOMAIN Vars : Vars[k].kind = "nil"}}
    ELSE {NoErr}

\* the log line of validateVars
validateVarsLog(Vars) ==
    IF S_project_id \notin DOMAIN Vars THEN <<L_noProjectID>> ELSE <<>>

-----------------------------------------------------------------------------
(* validateModule, validateOutputs *)

\* modulereader.IsValidKind
IsValidKind(kind) == kind \in {"terraform", "packer"}

\* module2String: the YAML dump of the module, here the fields the checks read
module2String(c) == <<c.ID, c.Source, c.Kind>>

\* the zero ModuleInfo, what a missing map entry yields
ZeroModuleInfo == [Inputs |-> <<>>, Outputs |-> <<>>]

\* ModuleInfo.GetOutputsAsMap: the keys of the map
GetOutputsAsMap(modInfo) == Range(modInfo.Outputs)

\* faulty variant: the Source field is not checked
validateModule_noSource(c) ==
    IF c.ID = "" THEN Err("emptyID", module2String(c))
    ELSE IF ~IsValidKind(c.Kind) THEN Err("wrongKind", module2String(c))
    ELSE NoErr

validateModule(c) ==
    IF c.ID = "" THEN Err("emptyID", module2String(c))
    ELSE IF c.Source = "" THEN Err("emptySource", module2String(c))
    ELSE IF ~IsValidKind(c.Kind) THEN Err("wrongKind", module2String(c))
    ELSE NoErr

\* faulty variant: only the first requested output is looked up
validateOutputs_firstOnly(mod, modInfo) ==
    IF Len(mod.Outputs) > 0 /\ mod.Outputs[1] \notin GetOutputsAsMap(modInfo)
    THEN Err("invalidOutput", <<mod.ID, mod.Outputs[1]>>)
    ELSE NoErr

validateOutputs(mod, modInfo) ==
    LET outputsMap == IF Len(mod.Outputs) > 0 THEN GetOutputsAsMap(modInfo) ELSE {}
        missing == {k \in 1..Len(mod.Outputs) : mod.Outputs[k] \notin outputsMap}
    IN IF missing = {} THEN NoErr
       ELSE LET first == CHOOSE k \in missing : \A j \in missing : k <= j
            IN Err("invalidOutput", <<mod.ID, mod.Outputs[first]>>)

\* dc.ModulesInfo[grp.Name][mod.Source]
lookupModuleInfo(ModulesInfo, grpName, source) ==
    IF grpName \in DOMAIN ModulesInfo /\ source \in DOMAIN ModulesInfo[grpName]
    THEN ModulesInfo[grpName][source]
    ELSE ZeroModuleInfo

\* the <<group, module>> index pairs of the nested range loops, in their order
RECURSIVE modulePositions(_, _)
modulePositions(groups, g) ==
    IF g > Len(groups) THEN <<>>
    ELSE [m \in 1..Len(groups[g].Modules) |-> <<g, m>>] \o modulePositions(groups, g + 1)

\* the body of the loop of validateModules for one module
validateModulesBody(ModulesInfo, grp, mod) ==
    LET e1 == validateModule(mod)
    IN IF e1 # NoErr THEN e1
       ELSE validateOutputs(mod, lookupModuleInfo(ModulesInfo, grp.Name, mod.Source))

-----------------------------------------------------------------------------
(* validateSettings *)

\* faulty variant: a required input without a setting is an error too
validateSettings_requiredToo(mod, info) ==
    LET Inputs == {info.Inputs[k].Name : k \in 1..Len(info.Inputs)}
        extra == {k \in DOMAIN mod.Settings : k \notin Inputs}
        unset == {k \in 1..Len(info.Inputs) :
                     info.Inputs[k].Required /\ info.Inputs[k].Name \notin DOMAIN mod.Settings}
    IN IF extra = {} /\ unset = {} THEN {NoErr}
       ELSE {Err("extraSetting", <<mod.ID, k>>) : k \in extra}
            \cup {Err("extraSetting", <<mod.ID, info.Inputs[k].Name>>) : k \in unset}

\* the range over mod.Settings visits the keys in any order: the error names
\* whichever undeclared key comes first
validateSettings(mod, info) ==
    LET Inputs == {info.Inputs[k].Name : k \in 1..Len(info.Inputs)}
        extra == {k \in DOMAIN mod.Settings : k \notin Inputs}
    IN IF extra = {} THEN {NoErr}
       ELSE {Err("extraSetting", <<mod.ID, k>>) : k \in extra}

\* sourcereader.Factory(mod.Source).GetModuleInfo(mod.Source, mod.Kind): the
\* schema of the module, the one dc.ModulesInfo was filled from, or an error
E_reader == "cannot read module"
GetModuleInfo(ModulesInfo, grpName, source, kind) ==
    {[info |-> lookupModuleInfo(ModulesInfo, grpName, source), err |-> NoErr],
     [info |-> ZeroModuleInfo, err |-> Err(E_reader, <<source>>)]}

\* errors.Wrapf(err, errStr, mod.Source)
Wrapf(err, errStr, source) == Err(errStr, <<source, err.msg>> \o err.arg)

E_getInfo == "failed to get info for module at %s while validating module settings"
E_settings == "found an issue while validating settings for module at %s"

-----------------------------------------------------------------------------
(* Configurations *)

validationError == "ERROR"
validationWarning == "WARNING"
validationIgnore == "IGNORE"
ValidationLevels == {validationError, validationWarning, validationIgnore}

validationErrorMsg == "validation failed due to the issues listed above"

NoInputs == [k \in {} |-> NilVal]

\* the name of an input as the characters of a deployment variable's name
keyString(k) ==
    CASE k = "project_id" -> S_project_id
      [] k = "region" -> S_region
      [] k = "zone" -> S_zone
      [] OTHER -> S_x

\* "((var.<k>))"
VarRef(k) == StringVal(Ref(Join(<<S_var, keyString(k)>>)))

Without(f, k) == [j \in DOMAIN f \ {k} |-> f[j]]
With(f, k, v) == [j \in DOMAIN f \cup {k} |-> IF j = k THEN v ELSE f[j]]

\* validator.Inputs with exactly the required names, each a reference to the
\* deployment variable of that name
GoodInputs(name) == [k \in Range(requiredInputsOf(name)) |-> VarRef(k)]

\* the declarations of one registered validator the model draws from: the good
\* one, one input missing, one input too many, and project_id given as a
\* number, as "((var))" and as a reference to a variable that is not defined
InputChoices(name) ==
    {GoodInputs(name),
     Without(GoodInputs(name), Last(requiredInputsOf(name))),
     With(GoodInputs(name), "extra", VarRef("extra")),
     With(GoodInputs(name), "project_id", NumberVal),
     With(GoodInputs(name), "project_id", StringVal(Ref(S_var))),
     With(GoodInputs(name), "project_id", StringVal(Ref(Join(<<S_var, S_y>>))))}

madeUpValidator == [Validator |-> "test_made_up", Inputs |-> NoInputs]

ValidatorChoices ==
    UNION {{[Validator |-> name, Inputs |-> inputs] : inputs \in InputChoices(name)} :
              name \in {testProjectExistsName, testZoneInRegionName}}
    \cup {[Validator |-> name, Inputs |-> GoodInputs(name)] :
            name \in {testRegionExistsName, testZoneExistsName}}
    \cup {madeUpValidator}

FewValidatorChoices ==
    {[Validator |-> testProjectExistsName, Inputs |-> GoodInputs(testProjectExistsName)],
     [Validator |-> testRegionExistsName, Inputs |-> NoInputs],
     [Validator |-> testProjectExistsName,
      Inputs |-> With(GoodInputs(testProjectExistsName), "project_id", StringVal(Ref(S_var)))],
     madeUpValidator}

V_p1 == StringVal(<<"p", "1">>)
V_r1 == StringVal(<<"r", "1">>)
V_z1 == StringVal(<<"z", "1">>)

NoVars == [k \in {} |-> NilVal]
FullVars == [k \in {S_project_id, S_region, S_zone} |->
                CASE k = S_project_id -> V_p1 [] k = S_region -> V_r1 [] OTHER -> V_z1]

\* deployment variables that pass validateVars
GoodVarsChoices ==
    {FullVars,
     [k \in {S_project_id, S_region} |-> IF k = S_project_id THEN V_p1 ELSE NumberVal],
     [k \in {S_labels} |-> MapVal]}

\* deployment variables over project_id, labels and x, of every kind of value
VarsChoices ==
    {v \in PartialMaps({S_project_id, S_labels, S_x}, {V_p1, NumberVal, MapVal, NilVal}) :
        S_project_id \in DOMAIN v => v[S_project_id] \in {V_p1, NilVal}}

FewVarsChoices ==
    {FullVars, NoVars, [k \in {S_x} |-> NilVal], [k \in {S_labels} |-> NumberVal]}

Schema == [Inputs |-> <<[Name |-> "a", Required |-> TRUE], [Name |-> "b", Required |-> FALSE]>>,
           Outputs |-> <<"foo", "bar">>]

\* dc.ModulesInfo: the schema of source "src1", known in group "primary" only
ModulesInfoChoice == [g \in {"primary"} |-> [src \in {"src1"} |-> Schema]]

NoSettings == [k \in {} |-> NilVal]
Module(id, source, kind, settings, outputs) ==
    [ID |-> id, Source |-> source, Kind |-> kind, Settings |-> settings, Outputs |-> outputs]

GoodModule == Module("m1", "src1", "terraform", [k \in {"a"} |-> V_p1], <<"foo">>)

ModuleChoices ==
    {GoodModule,
     Module("m2", "src1", "packer", NoSettings, <<>>),
     Module("", "src1", "terraform", NoSettings, <<>>),
     Module("m3", "", "terraform", NoSettings, <<"foo">>),
     Module("m4", "src1", "ansible", NoSettings, <<"nope">>),
     Module("m5", "src1", "terraform", NoSettings, <<"bar", "nope", "zip">>),
     Module("m6", "src2", "terraform", NoSettings, <<"foo">>)}

GoodGroups == <<[Name |-> "primary", Modules |-> <<GoodModule>>]>>

\* two groups, "primary" and "second", of up to MaxModules modules each
GroupsChoices ==
    {<<[Name |-> "primary", Modules |-> m1], [Name |-> "second", Modules |-> m2]>> :
        m1 \in SeqsOf(ModuleChoices, 0, MaxModules),
        m2 \in SeqsOf({GoodModule, Module("m2", "src1", "packer", NoSettings, <<>>)}, 0, 1)}

WrongKindGroups ==
    <<[Name |-> "primary",
       Modules |-> <<GoodModule, Module("m4", "src1", "ansible", NoSettings, <<>>)>>]>>
ExtraSettingGroups ==
    <<[Name |-> "primary",
       Modules |-> <<Module("m7", "src1", "terraform", [k \in {"c"} |-> V_p1], <<"bar">>)>>]>>

FewGroupsChoices == {GoodGroups, <<>>, WrongKindGroups, ExtraSettingGroups}

DeploymentConfig(Vars, level, validators, groups) ==
    [Config |-> [Vars |-> Vars, ValidationLevel |-> level,
                 Validators |-> validators, DeploymentGroups |-> groups],
     ModulesInfo |-> ModulesInfoChoice]

\* every dimension of the blueprint varies a little
PipelineConfigs ==
    {DeploymentConfig(v, l, vs, g) :
        v \in FewVarsChoices, l \in ValidationLevels,
        vs \in SeqsOf(FewValidatorChoices, 0, MaxValidators), g \in FewGroupsChoices}

\* the declared validators vary
ValidatorsConfigs ==
    {DeploymentConfig(v, l, vs, g) :
        v \in GoodVarsChoices \cup {[k \in {S_x} |-> NilVal]}, l \in ValidationLevels,
        vs \in SeqsOf(ValidatorChoices, 0, MaxValidators),
        g \in {GoodGroups, WrongKindGroups}}

\* the deployment variables vary
VarsConfigs ==
    {DeploymentConfig(v, l, vs, GoodGroups) :
        v \in VarsChoices, l \in {validationError, validationIgnore},
        vs \in {<<>>, <<madeUpValidator>>}}

\* the deployment groups vary
ModulesConfigs ==
    {DeploymentConfig(v, l, <<madeUpValidator>>, g) :
        v \in {FullVars, [k \in {S_x} |-> NilVal]},
        l \in {validationIgnore, validationWarning}, g \in GroupsChoices}

-----------------------------------------------------------------------------
(* validate() *)

L_fatal == "log.Fatal"
L_warningPrefix == "warning: "
L_errorPrefix == "error: "
L_notImplemented == "%s is not an implemented validator"
L_remediation == "validator failures can indicate a credentials problem. ..."

Stages == <<"validateVars", "executeValidators", "validateModules", "validateModuleSettings">>

\* the state before the first step: validate() (or the function under call)
\* is about to run on one of the configurations
InitState(configs, start, argChoices) ==
    /\ dc \in configs
    /\ pc = start
    /\ validatorIdx = 1
    /\ errored = FALSE
    /\ warned = FALSE
    /\ processed = <<>>
    /\ outcomes = <<>>
    /\ checkCalls = 0
    /\ remoteCalls = <<>>
    /\ log = <<>>
    /\ modIdx = 1
    /\ examined = <<>>
    /\ settingsExamined = <<>>
    /\ returned = <<>>
    /\ args \in argChoices
    /\ ret = NoErr
    /\ dict = [m |-> 0]
    /\ heap = <<>>
    /\ items = {}
    /\ stored = [k \in {} |-> NilVal]

InitWith(configs) == InitState(configs, "validateVars", {<<>>})

\* faulty variant: validate() goes on to the next stage whatever the stage returned
StageReturns_ignoresError(fn, err, next, lines) ==
    /\ returned' = Append(returned, [fn |-> fn, err |-> err])
    /\ log' = log \o lines
    /\ pc' = next

\* stage fn returns err to validate(), which goes on to the next stage when err
\* is nil and ends the process through log.Fatal(err) otherwise; lines is what
\* the stage logs before it returns
StageReturns(fn, err, next, lines) ==
    /\ returned' = Append(returned, [fn |-> fn, err |-> err])
    /\ log' = log \o lines \o (IF err = NoErr THEN <<>> ELSE <<L_fatal, err.msg>>)
    /\ pc' = IF err = NoErr THEN next ELSE "fatal"

ValidateVars ==
    /\ pc = "validateVars"
    /\ \E err \in validateVars(dc.Config.Vars) :
          StageReturns("validateVars", err, "executeValidators", validateVarsLog(dc.Config.Vars))
    /\ UNCHANGED <<dict, heap, items, stored, dc, validatorIdx, errored, warned, processed, outcomes, checkCalls, remoteCalls,
                   modIdx, examined, settingsExamined, args, ret>>

\* line 61: the test that returns before the loop
skipsValidators_never(level) == FALSE

skipsValidators(level) == level = validationIgnore

\* lines 69-77: the flags after a registered validator has returned an error
failureFlags(level, flags) ==
    IF level = validationWarning
    THEN [flags EXCEPT !.warned = TRUE]
    ELSE [flags EXCEPT !.errored = TRUE]

\* lines 70-77: the prefix of the line logged for the error
failurePrefix(level) ==
    IF level = validationWarning THEN L_warningPrefix ELSE L_errorPrefix

\* lines 81-84: the flags after a name that is not in the registry
unregisteredFlags(level, flags) == [flags EXCEPT !.errored = TRUE]

\* line 65: where the range loop goes after the body has run for index idx of n
\* and the check returned err
nextValidatorIdx(idx, n, err) == idx + 1

\* lines 104-107: what executeValidators returns
executeValidatorsResult(flags) ==
    IF flags.errored THEN Err(validationErrorMsg, <<>>) ELSE NoErr

E_notImplemented == "not an implemented validator"

\* executeValidators with ValidationLevel IGNORE: return nil before the loop
ExecuteValidatorsIgnore ==
    /\ pc = "executeValidators"
    /\ skipsValidators(dc.Config.ValidationLevel)
    /\ StageReturns("executeValidators", NoErr, "validateModules", <<>>)
    /\ UNCHANGED <<dict, heap, items, stored, dc, validatorIdx, errored, warned, processed, outcomes, checkCalls, remoteCalls,
                   modIdx, examined, settingsExamined, args, ret>>

\* one pass through the body of the range loop of executeValidators
ExecuteValidatorsLoop ==
    /\ pc = "executeValidators"
    /\ ~skipsValidators(dc.Config.ValidationLevel)
    /\ validatorIdx <= Len(dc.Config.Validators)
    /\ LET validator == dc.Config.Validators[validatorIdx]
           level == dc.Config.ValidationLevel
           n == Len(dc.Config.Validators)
           flags == [errored |-> errored, warned |-> warned]
       IN IF validator.Validator \in getValidators
          THEN \E remoteErr \in RemoteAnswers :
                 LET r == callValidator(validator.Validator, dc.Config.Vars, validator, remoteErr)
                 IN /\ checkCalls' = checkCalls + 1
                    /\ remoteCalls' = remoteCalls \o r.remote
                    /\ IF IsPanic(r.err)
                       THEN /\ pc' = "panic"
                            /\ log' = log \o r.log \o <<r.err.msg>>
                            /\ UNCHANGED <<validatorIdx, errored, warned, processed, outcomes>>
                       ELSE /\ pc' = pc
                            /\ validatorIdx' = nextValidatorIdx(validatorIdx, n, r.err)
                            /\ processed' = Append(processed, validatorIdx)
                            /\ outcomes' = Append(outcomes, r.err)
                            /\ IF r.err = NoErr
                               THEN /\ log' = log \o r.log
                                    /\ UNCHANGED <<errored, warned>>
                               ELSE /\ errored' = failureFlags(level, flags).errored
                                    /\ warned' = failureFlags(level, flags).warned
                                    /\ log' = log \o r.log \o <<failurePrefix(level)>>
          ELSE /\ errored' = unregisteredFlags(level, flags).errored
               /\ warned' = unregisteredFlags(level, flags).warned
               /\ log' = log \o <<L_notImplemented>>
               /\ validatorIdx' = nextValidatorIdx(validatorIdx, n, Err(E_notImplemented, <<>>))
               /\ processed' = Append(processed, validatorIdx)
               /\ outcomes' = Append(outcomes, Err(E_notImplemented, <<>>))
               /\ UNCHANGED <<pc, checkCalls, remoteCalls>>
    /\ UNCHANGED <<dict, heap, items, stored, dc, modIdx, examined, settingsExamined, returned, args, ret>>

\* after the loop: the troubleshooting lines, then the one error or nil
ExecuteValidatorsReturn ==
    /\ pc = "executeValidators"
    /\ ~skipsValidators(dc.Config.ValidationLevel)
    /\ validatorIdx > Len(dc.Config.Validators)
    /\ StageReturns("executeValidators",
                    executeValidatorsResult([errored |-> errored, warned |-> warned]),
                    "validateModules",
                    IF warned \/ errored THEN <<L_remediation>> ELSE <<>>)
    /\ UNCHANGED <<dict, heap, items, stored, dc, validatorIdx, errored, warned, processed, outcomes, checkCalls, remoteCalls,
                   modIdx, examined, settingsExamined, args, ret>>

\* one pass through the body of the inner range loop of validateModules
ValidateModulesLoop ==
    /\ pc = "validateModules"
    /\ LET positions == modulePositions(dc.Config.DeploymentGroups, 1)
       IN /\ modIdx <= Len(positions)
          /\ LET grp == dc.Config.DeploymentGroups[positions[modIdx][1]]
                 mod == grp.Modules[positions[modIdx][2]]
                 err == validateModulesBody(dc.ModulesInfo, grp, mod)
             IN /\ examined' = Append(examined, positions[modIdx])
                /\ IF err = NoErr
                   THEN /\ modIdx' = modIdx + 1
                        /\ UNCHANGED <<pc, log, returned>>
                   ELSE /\ StageReturns("validateModules", err, "fatal", <<>>)
                        /\ UNCHANGED modIdx
    /\ UNCHANGED <<dict, heap, items, stored, dc, validatorIdx, errored, warned, processed, outcomes, checkCalls, remoteCalls,
                   settingsExamined, args, ret>>

ValidateModulesReturn ==
    /\ pc = "validateModules"
    /\ modIdx > Len(modulePositions(dc.Config.DeploymentGroups, 1))
    /\ StageReturns("validateModules", NoErr, "validateModuleSettings", <<>>)
    /\ modIdx' = 1
    /\ UNCHANGED <<dict, heap, items, stored, dc, validatorIdx, errored, warned, processed, outcomes, checkCalls, remoteCalls,
                   examined, settingsExamined, args, ret>>

\* one pass through the body of the inner range loop of validateModuleSettings
ValidateModuleSettingsLoop ==
    /\ pc = "validateModuleSettings"
    /\ LET positions == modulePositions(dc.Config.DeploymentGroups, 1)
       IN /\ modIdx <= Len(positions)
          /\ LET grp == dc.Config.DeploymentGroups[positions[modIdx][1]]
                 mod == grp.Modules[positions[modIdx][2]]
             IN \E r \in GetModuleInfo(dc.ModulesInfo, grp.Name, mod.Source, mod.Kind) :
                  /\ settingsExamined' = Append(settingsExamined, positions[modIdx])
                  /\ IF r.err # NoErr
                     THEN /\ StageReturns("validateModuleSettings",
                                          Wrapf(r.err, E_getInfo, mod.Source), "fatal", <<>>)
                          /\ UNCHANGED modIdx
                     ELSE \E err \in validateSettings(mod, r.info) :
                            IF err # NoErr
                            THEN /\ StageReturns("validateModuleSettings",
                                                 Wrapf(err, E_settings, mod.Source), "fatal", <<>>)
                                 /\ UNCHANGED modIdx
                            ELSE /\ modIdx' = modIdx + 1
                                 /\ UNCHANGED <<pc, log, returned>>
    /\ UNCHANGED <<dict, heap, items, stored, dc, validatorIdx, errored, warned, processed, outcomes, checkCalls, remoteCalls,
                   examined, args, ret>>

ValidateModuleSettingsReturn ==
    /\ pc = "validateModuleSettings"
    /\ modIdx > Len(modulePositions(dc.Config.DeploymentGroups, 1))
    /\ StageReturns("validateModuleSettings", NoErr, "Validated", <<>>)
    /\ UNCHANGED <<dict, heap, items, stored, dc, validatorIdx, errored, warned, processed, outcomes, checkCalls, remoteCalls,
                   modIdx, examined, settingsExamined, args, ret>>

Next ==
    \/ ValidateVars
    \/ ExecuteValidatorsIgnore
    \/ ExecuteValidatorsLoop
    \/ ExecuteValidatorsReturn
    \/ ValidateModulesLoop
    \/ ValidateModulesReturn
    \/ ValidateModuleSettingsLoop
    \/ ValidateModuleSettingsReturn

Init == InitWith(PipelineConfigs)
Spec == Init /\ [][Next]_vars

InitValidators == InitWith(ValidatorsConfigs)
SpecValidators == InitValidators /\ [][Next]_vars

InitVars == InitWith(VarsConfigs)
SpecVars == InitVars /\ [][Next]_vars

InitModules == InitWith(ModulesConfigs)
SpecModules == InitModules /\ [][Next]_vars

-----------------------------------------------------------------------------
(* getStringValue and testInputList called on their own *)

\* the bodies of the strings the model draws from: up to MaxParts components
\* joined by dots
Components == {S_var, S_mod, S_x, S_y, <<>>}
Bodies == {Join(parts) : parts \in SeqsOf(Components, 1, MaxParts)}

\* a body on its own, in single parentheses and as a literal variable, each
\* with and without a character before and after it
Decorations ==
    {[pre |-> pre, open |-> d[1], close |-> d[2], suf |-> suf] :
        pre \in {<<>>, <<"p">>}, suf \in {<<>>, <<"s">>},
        d \in {<< <<"(", "(">>, <<")", ")">> >>, << <<"(">>, <<")">> >>, << <<>>, <<>> >>}}

InputReferences ==
    {StringVal(d.pre \o d.open \o body \o d.close \o d.suf) : d \in Decorations, body \in Bodies}
    \cup {NumberVal, MapVal, NilVal}

\* deployment variables x and y; validateVars has passed, so none is nil
StringValueVars ==
    PartialMaps({S_x, S_y}, {StringVal(<<"a">>), StringVal(<<"b">>), NumberVal})

InitStringValue ==
    InitState({DeploymentConfig(v, validationError, <<>>, <<>>) : v \in StringValueVars},
              "call",
              {[inputReference |-> v] : v \in InputReferences})

InputNames == {"project_id", "region", "zone"}

\* requiredInputs is a list without repetitions, as the four lists of the
\* validators are
RequiredInputsChoices == UNION {Perms(S) : S \in SUBSET InputNames}

InputsChoices == PartialMaps(InputNames \cup {"extra"}, {VarRef("project_id")})

InitInputList ==
    InitState({DeploymentConfig(FullVars, validationError, <<>>, <<>>)},
              "call",
              {[function |-> f, inputs |-> i, requiredInputs |-> r] :
                  f \in {testProjectExistsName, testZoneInRegionName},
                  i \in InputsChoices, r \in RequiredInputsChoices})

CallGetStringValue ==
    /\ pc = "call"
    /\ ret' = getStringValue(dc.Config.Vars, args.inputReference)
    /\ pc' = IF IsPanic(ret'.err) THEN "panic" ELSE "returned"
    /\ log' = IF IsPanic(ret'.err) THEN log \o <<ret'.err.msg>> ELSE log
    /\ UNCHANGED <<dict, heap, items, stored, dc, validatorIdx, errored, warned, processed, outcomes, checkCalls,
                   remoteCalls, modIdx, examined, settingsExamined, returned, args>>

CallTestInputList ==
    /\ pc = "call"
    /\ ret' = testInputList(args.function, args.inputs, args.requiredInputs)
    /\ log' = log \o missingLog(args.inputs, args.requiredInputs)
    /\ pc' = "returned"
    /\ UNCHANGED <<dict, heap, items, stored, dc, validatorIdx, errored, warned, processed, outcomes, checkCalls,
                   remoteCalls, modIdx, examined, settingsExamined, returned, args>>

\* validateSettings called on its own: a module with settings under up to
\* four keys and a schema of up to MaxInputs declared inputs
SettingsChoices == PartialMaps({"a", "b", "c", "d"}, {V_p1, NumberVal, NilVal})

InputDecls == {[Name |-> n, Required |-> r] : n \in {"a", "b"}, r \in BOOLEAN}

InfoChoices == {[Inputs |-> i, Outputs |-> <<>>] : i \in SeqsOf(InputDecls, 0, MaxInputs)}

InitSettings ==
    InitState({DeploymentConfig(FullVars, validationError, <<>>, <<>>)},
              "call",
              {[mod |-> Module(id, "src1", "terraform", st, <<>>), info |-> info] :
                  id \in {"m1", "m2"}, st \in SettingsChoices, info \in InfoChoices})

CallValidateSettings ==
    /\ pc = "call"
    /\ \E err \in validateSettings(args.mod, args.info) : ret' = err
    /\ pc' = "returned"
    /\ UNCHANGED <<dict, heap, items, stored, dc, validatorIdx, errored, warned, processed, outcomes, checkCalls,
                   remoteCalls, log, modIdx, examined, settingsExamined, returned, args>>

NextSettings == CallValidateSettings
SpecSettings == InitSettings /\ [][NextSettings]_vars

NextStringValue == CallGetStringValue
SpecStringValue == InitStringValue /\ [][NextStringValue]_vars

NextInputList == CallTestInputList
SpecInputList == InitInputList /\ [][NextInputList]_vars

-----------------------------------------------------------------------------
(* Dict (dict.go) *)

\* the empty map[string]cty.Value
EmptyMap == [k \in {} |-> NilVal]

\* Go's m[k] on the map at address a: the value and whether the key is there;
\* the nil map reads as an empty one, a missing key as the zero cty.Value,
\* which is cty.NilVal
mapIndex(h, a, k) ==
    IF a # 0 /\ k \in DOMAIN h[a] THEN [v |-> h[a][k], ok |-> TRUE]
    ELSE [v |-> NilVal, ok |-> FALSE]

\* Go's m[k] = v on the map at address a: an assignment to the nil map panics
mapAssign(h, a, k, v) ==
    IF a = 0 THEN [heap |-> h, panic |-> TRUE]
    ELSE [heap |-> [h EXCEPT ![a] = With(@, k, v)], panic |-> FALSE]

\* Go's delete(m, k): no effect on the nil map or on a missing key
mapDelete(h, a, k) ==
    IF a = 0 THEN h ELSE [h EXCEPT ![a] = Without(@, k)]

Get(d, h, k) ==
    IF d.m = 0 THEN NilVal ELSE mapIndex(h, d.m, k).v

Has(d, h, k) ==
    IF d.m = 0 THEN FALSE ELSE mapIndex(h, d.m, k).ok

\* faulty variant: the nil map is assigned to
Set_noNilCheck(d, h, k, v) ==
    LET r == mapAssign(h, d.m, k, v)
    IN [d |-> d, heap |-> r.heap, panic |-> r.panic]

Set(d, h, k, v) ==
    IF d.m = 0
    THEN [d |-> [m |-> Len(h) + 1], heap |-> Append(h, With(EmptyMap, k, v)), panic |-> FALSE]
    ELSE LET r == mapAssign(h, d.m, k, v)
         IN [d |-> d, heap |-> r.heap, panic |-> r.panic]

\* faulty variant: the map of the Dict itself is handed out
Items_noCopy(d, h) ==
    IF d.m # 0 THEN [heap |-> h, m |-> d.m]
    ELSE [heap |-> Append(h, EmptyMap), m |-> Len(h) + 1]

\* a new map, filled from d.m when that is not nil; m is its address
Items(d, h) ==
    [heap |-> Append(h, IF d.m # 0 THEN h[d.m] ELSE EmptyMap), m |-> Len(h) + 1]

DictKeys == {"k1", "k2"}
\* a string and cty.NilVal itself, which Set accepts like any value
DictValues == {StringVal(<<"a">>), NilVal}

\* a zero-initialized Dict and a caller that is about to use it
InitDict ==
    InitState({DeploymentConfig(FullVars, validationError, <<>>, <<>>)}, "dict", {<<>>})

DictGet ==
    /\ pc = "dict"
    /\ \E k \in DictKeys : ret' = Get(dict, heap, k)
    /\ UNCHANGED <<dict, heap, items, stored, dc, pc, validatorIdx, errored, warned, processed,
                   outcomes, checkCalls, remoteCalls, log, modIdx, examined, settingsExamined,
                   returned, args>>

DictHas ==
    /\ pc = "dict"
    /\ \E k \in DictKeys : ret' = Has(dict, heap, k)
    /\ UNCHANGED <<dict, heap, items, stored, dc, pc, validatorIdx, errored, warned, processed,
                   outcomes, checkCalls, remoteCalls, log, modIdx, examined, settingsExamined,
                   returned, args>>

\* d.Set(k, v); the maps are at most MaxMaps
DictSet ==
    /\ pc = "dict"
    /\ dict.m # 0 \/ Len(heap) < MaxMaps
    /\ \E k \in DictKeys, v \in DictValues :
          LET r == Set(dict, heap, k, v)
          IN IF r.panic
             THEN /\ pc' = "panic"
                  /\ UNCHANGED <<dict, heap, stored, ret>>
             ELSE /\ dict' = r.d
                  /\ heap' = r.heap
                  /\ stored' = With(stored, k, v)
                  /\ ret' = r.d
                  /\ pc' = pc
    /\ UNCHANGED <<items, dc, validatorIdx, errored, warned, processed, outcomes, checkCalls,
                   remoteCalls, log, modIdx, examined, settingsExamined, returned, args>>

\* d.Items(): the caller keeps the map it was given
DictItems ==
    /\ pc = "dict"
    /\ Len(heap) < MaxMaps
    /\ LET r == Items(dict, heap)
       IN /\ heap' = r.heap
          /\ items' = items \cup {r.m}
          /\ ret' = r.heap[r.m]
    /\ UNCHANGED <<dict, stored, dc, pc, validatorIdx, errored, warned, processed, outcomes,
                   checkCalls, remoteCalls, log, modIdx, examined, settingsExamined, returned,
                   args>>

\* the caller assigns to a key of a map Items returned, or deletes one
MutateItems ==
    /\ pc = "dict"
    /\ \E a \in items, k \in DictKeys :
          \/ \E v \in DictValues :
                LET r == mapAssign(heap, a, k, v)
                IN IF r.panic THEN pc' = "panic" /\ UNCHANGED heap
                   ELSE heap' = r.heap /\ pc' = pc
          \/ heap' = mapDelete(heap, a, k) /\ pc' = pc
    /\ UNCHANGED <<dict, items, stored, dc, validatorIdx, errored, warned, processed, outcomes,
                   checkCalls, remoteCalls, log, modIdx, examined, settingsExamined, returned,
                   args, ret>>

NextDict ==
    \/ DictGet
    \/ DictHas
    \/ DictSet
    \/ DictItems
    \/ MutateItems

SpecDict == InitDict /\ [][NextDict]_vars

-----------------------------------------------------------------------------
(* What the claims read *)

Level == dc.Config.ValidationLevel
Declared == dc.Config.Validators
Unregistered == {k \in 1..Len(Declared) : Declared[k].Validator \notin getValidators}

\* executeValidators has returned to validate(), and what it returned
ExecReturned == Len(returned) >= 2
ExecResult == returned[2].err

Count(seq, x) == Cardinality({k \in 1..Len(seq) : seq[k] = x})
Failed == {k \in 1..Len(outcomes) : outcomes[k] # NoErr}

\* the lines executeValidators and the validators it calls write
ValidatorLines ==
    {L_warningPrefix, L_errorPrefix, L_notImplemented, L_remediation,
     L_funcErrorMsg, L_requiredMissing}

-----------------------------------------------------------------------------------------------------------------------------------------------------
(* C1 *)

\* executeValidators is over: it has returned, or a validator it called has
\* panicked
ExecEnded == ExecReturned \/ pc = "panic"

\* C1: with a ValidationLevel other than IGNORE and at least one declared
\* validator whose name is not in the registry, executeValidators returns the
\* validation error and validate() ends in log.Fatal, also under WARNING and
\* when every registered validator passes.
C1_UnregisteredAlwaysFails ==
    (Level # validationIgnore /\ Unregistered # {} /\ ExecEnded) =>
        /\ ExecReturned
        /\ ExecResult = Err(validationErrorMsg, <<>>)
        /\ pc = "fatal"

\* What holds of C1: the loop sets `errored` at every unregistered name whatever
\* the level, executeValidators never returns nil with one declared, and no
\* later stage starts.
UnregisteredIsErrorAtReturn ==
    (Level # validationIgnore /\ Unregistered # {}) =>
        /\ \A k \in 1..Len(processed) : processed[k] \in Unregistered => errored
        /\ ExecReturned => (ExecResult = Err(validationErrorMsg, <<>>) /\ pc = "fatal")
        /\ pc \notin {"validateModules", "validateModuleSettings", "Validated"}

-----
(* C2 *)

\* C2: with ValidationLevel IGNORE no registered validator function is invoked,
\* no call reaches package validators, the loop body runs for no declared
\* validator, nothing is logged by executeValidators, and it returns nil.
C2_IgnoreRunsNothing ==
    Level = validationIgnore =>
        /\ checkCalls = 0
        /\ remoteCalls = <<>>
        /\ processed = <<>>
        /\ ~errored /\ ~warned
        /\ Range(log) \cap ValidatorLines = {}
        /\ ExecReturned => ExecResult = NoErr
        /\ pc # "panic"

\* level IGNORE, validators declared, one of them not registered, and
\* executeValidators has returned
C2_Witness ==
    /\ Level = validationIgnore
    /\ Len(Declared) = 2
    /\ Unregistered # {}
    /\ \E k \in 1..Len(Declared) : Declared[k].Validator \in getValidators
    /\ ExecReturned

-----------------------------------------------------------------------------------------------------------------------------------------------------
(* C3 *)

\* C3: with ValidationLevel ERROR or WARNING, when executeValidators is over the
\* loop body has run for every declared validator, once each and in document
\* order, whatever the earlier ones did.
C3_EveryValidatorProcessed ==
    (Level # validationIgnore /\ ExecEnded) =>
        processed = [k \in 1..Len(Declared) |-> k]

\* What holds of C3: the loop body runs for the declared validators one by one
\* in document order (processed is always 1, 2, ..., validatorIdx - 1), also
\* after an error or an unregistered name, and executeValidators returns only
\* when it has run for all of them.
NoEarlyStopAtReturn ==
    Level # validationIgnore =>
        /\ processed = [k \in 1..(validatorIdx - 1) |-> k]
        /\ Len(outcomes) = Len(processed)
        /\ validatorIdx <= Len(Declared) + 1
        /\ ExecReturned => processed = [k \in 1..Len(Declared) |-> k]

-----------------------------------------------------------------------------
(* C4 *)

\* C4: when every declared validator is registered and the level is WARNING,
\* executeValidators returns nil however many of them fail; when the level is
\* ERROR and at least one has failed it returns the one validation error, which
\* validate() passes to log.Fatal once.
C4_SeverityFollowsLevel ==
    ExecEnded =>
        /\ (Level = validationWarning /\ Unregistered = {}) =>
              (ExecReturned /\ ExecResult = NoErr)
        /\ (Level = validationError /\ Failed # {}) =>
              /\ ExecReturned
              /\ ExecResult = Err(validationErrorMsg, <<>>)
              /\ pc = "fatal"
              /\ Count(log, validationErrorMsg) = 1
              /\ Count(log, L_fatal) = 1

\* What holds of C4: whenever executeValidators returns, the value returned
\* follows the level as C4 says.
SeverityFollowsLevelAtReturn ==
    ExecReturned =>
        /\ (Level = validationWarning /\ Unregistered = {}) => ExecResult = NoErr
        /\ (Level = validationError /\ Failed # {}) =>
              /\ ExecResult = Err(validationErrorMsg, <<>>)
              /\ pc = "fatal"
              /\ Count(log, validationErrorMsg) = 1
              /\ Count(log, L_fatal) = 1
              /\ Count(log, L_remediation) = 1
        /\ (Level = validationError /\ Failed = {}) => ExecResult = NoErr

-----
(* C5 *)

\* C5: the stages return to validate() in the order validateVars,
\* executeValidators, validateModules, validateModuleSettings; a stage is entered
\* (and does any of its work) only when all stages before it have returned nil;
\* once a stage has returned an error nothing more happens; and Validated is
\* reached only with four nil returns.
C5_StagesInOrder ==
    /\ \A k \in 1..Len(returned) : k <= 4 /\ returned[k].fn = Stages[k]
    /\ \A k \in 1..(Len(returned) - 1) : returned[k].err = NoErr
    /\ \A k \in 1..4 : pc = Stages[k] =>
          (Len(returned) = k - 1 /\ \A j \in 1..(k - 1) : returned[j].err = NoErr)
    /\ (processed # <<>> \/ checkCalls > 0 \/ pc = "panic") =>
          (Len(returned) >= 1 /\ returned[1].err = NoErr)
    /\ examined # <<>> => (Len(returned) >= 2 /\ returned[2].err = NoErr)
    /\ settingsExamined # <<>> => (Len(returned) >= 3 /\ returned[3].err = NoErr)
    /\ pc = "fatal" <=> (returned # <<>> /\ Last(returned).err # NoErr)
    /\ pc = "fatal" => ~ENABLED Next
    /\ pc = "Validated" =>
          (Len(returned) = 4 /\ \A k \in 1..4 : returned[k].err = NoErr)

\* Validated is reached although a validator failed with WARNING severity
C5_Witness ==
    /\ pc = "Validated"
    /\ warned
    /\ Failed # {}
    /\ examined # <<>>
    /\ settingsExamined # <<>>

-----------------------------------------------------------------------------
(* C6 *)

\* C6: testInputList returns nil if and only if the keys of inputs are exactly
\* the names of requiredInputs: a missing name fails, an extra name fails, and
\* so does one name missing with another one extra.
C6_InputSetEquality ==
    pc = "returned" =>
        /\ (ret = NoErr) <=> (DOMAIN args.inputs = Range(args.requiredInputs))
        /\ Range(args.requiredInputs) \ DOMAIN args.inputs # {} => ret.msg = E_requiredMissing
        /\ (Range(args.requiredInputs) \subseteq DOMAIN args.inputs
            /\ DOMAIN args.inputs # Range(args.requiredInputs)) => ret.msg = E_onlyInputs

\* as many inputs as required names, one required name missing and another
\* name supplied, and the call has failed
C6_Witness ==
    /\ pc = "returned"
    /\ Len(args.requiredInputs) = 2
    /\ Cardinality(DOMAIN args.inputs) = 2
    /\ Cardinality(DOMAIN args.inputs \cap Range(args.requiredInputs)) = 1
    /\ ret # NoErr

-----------------------------------------------------------------------------
(* C7 *)

\* the string holds a literal variable with characters before or after it
Embedded(str) ==
    /\ ~IsLiteralVariable(str)
    /\ \E i, j \in 1..Len(str) : i < j /\ IsLiteralVariable(SubSeq(str, i, j))

\* the string is a literal variable of three names with two dots between them
TwoDots(str) ==
    /\ IsLiteralVariable(str)
    /\ Len(Split(HandleLiteralVariable(str))) = 3
    /\ \A k \in 1..3 : Split(HandleLiteralVariable(str))[k] # <<>>

\* C7: getStringValue returns an error for a string with characters around a
\* reference and for a reference with two dots, whatever the deployment
\* variables are.
C7_LiteralReferenceExactness ==
    (pc # "call" /\ args.inputReference.kind = "string"
     /\ (Embedded(args.inputReference.s) \/ TwoDots(args.inputReference.s)))
        => ret.err # NoErr

-----------------------------------------------------------------------------
(* C8 *)

\* the outcome C8 gives for an input: the reference is read as the code reads
\* it (scope before the first dot, name up to the second), and a reference with
\* no dot is an unresolved reference
FourOutcomes(Vars, v) ==
    IF v.kind # "string" THEN [val |-> <<>>, err |-> Err(E_cast, <<>>)]
    ELSE LET parts == IF IsLiteralVariable(v.s)
                      THEN Split(HandleLiteralVariable(v.s)) ELSE <<>>
         IN IF Len(parts) >= 2 /\ parts[1] = S_var /\ parts[2] \in DOMAIN Vars
            THEN IF Vars[parts[2]].kind = "string"
                 THEN [val |-> Vars[parts[2]].s, err |-> NoErr]
                 ELSE [val |-> <<>>, err |-> Err(E_notString, <<>>)]
            ELSE [val |-> <<>>, err |-> Err(E_undefined, <<>>)]

\* C8: getStringValue returns for every input, with one of the four outcomes:
\* the cast error, the string of the variable, the not-a-string error, the
\* not-defined error.
C8_TotalFourOutcomes ==
    pc # "call" =>
        /\ pc = "returned"
        /\ ret = FourOutcomes(dc.Config.Vars, args.inputReference)

-----------------------------------------------------------------------------
(* C9 *)

Vars == dc.Config.Vars
NilKeys == {k \in DOMAIN Vars : Vars[k].kind = "nil"}
LabelsNotMap == S_labels \in DOMAIN Vars /\ Vars[S_labels].kind # "map"

\* validateVars has returned to validate(), and what it returned
VarsReturned == Len(returned) >= 1
VarsResult == returned[1].err

\* C9: validateVars returns nil if and only if no deployment variable is nil
\* and labels, when present, is a map; a missing project_id is logged as a
\* warning and changes nothing in the result; labels that is present and not a
\* map gives the labels error; otherwise a nil value gives the not-set error
\* with the key of a nil value in it.
C9_ValidateVars ==
    VarsReturned =>
        /\ (VarsResult = NoErr) <=> (NilKeys = {} /\ ~LabelsNotMap)
        /\ LabelsNotMap => VarsResult = Err(E_labels, <<>>)
        /\ (~LabelsNotMap /\ NilKeys # {}) =>
              (VarsResult.msg = E_nilVar /\ VarsResult.arg \in NilKeys)
        /\ (S_project_id \notin DOMAIN Vars) <=> (L_noProjectID \in Range(log))

\* two deployment variables, none of them project_id, labels a map: validateVars
\* has logged the warning and returned nil
C9_Witness ==
    /\ VarsReturned
    /\ S_project_id \notin DOMAIN Vars
    /\ S_labels \in DOMAIN Vars
    /\ Cardinality(DOMAIN Vars) = 2
    /\ VarsResult = NoErr
    /\ log[1] = L_noProjectID

-----------------------------------------------------------------------------
(* C10 *)

Groups == dc.Config.DeploymentGroups
Positions == modulePositions(Groups, 1)
GroupAt(k) == Groups[Positions[k][1]]
ModuleAt(k) == GroupAt(k).Modules[Positions[k][2]]
SchemaOutputs(k) ==
    Range(lookupModuleInfo(dc.ModulesInfo, GroupAt(k).Name, ModuleAt(k).Source).Outputs)
MissingOutputs(k) ==
    {j \in 1..Len(ModuleAt(k).Outputs) : ModuleAt(k).Outputs[j] \notin SchemaOutputs(k)}

\* the module at position k passes every check of the claim
ModuleOk(k) ==
    /\ ModuleAt(k).ID # ""
    /\ ModuleAt(k).Source # ""
    /\ ModuleAt(k).Kind \in {"terraform", "packer"}
    /\ MissingOutputs(k) = {}

BadModules == {k \in 1..Len(Positions) : ~ModuleOk(k)}
FirstBad == CHOOSE k \in BadModules : \A j \in BadModules : k <= j

\* validateModules has returned to validate(), and what it returned
ModulesReturned == Len(returned) >= 3
ModulesResult == returned[3].err

\* C10: validateModules returns nil if and only if every module of every group
\* has an ID, a source, a recognized kind and only outputs of its schema, and
\* has then looked at every module; otherwise it has looked at the modules up
\* to the first failing one in document order and at none after it, and
\* returns the error of that module: empty ID, else empty source, else wrong
\* kind, else the invalid-output error with the module ID and the first of
\* its Outputs that the schema lacks.
C10_ValidateModulesFailFast ==
    /\ examined = SubSeq(Positions, 1, Len(examined))
    /\ ModulesReturned =>
        /\ (ModulesResult = NoErr) <=> (BadModules = {})
        /\ BadModules = {} => examined = Positions
        /\ BadModules # {} =>
            /\ examined = SubSeq(Positions, 1, FirstBad)
            /\ ModulesResult.msg =
                  (IF ModuleAt(FirstBad).ID = "" THEN "emptyID"
                   ELSE IF ModuleAt(FirstBad).Source = "" THEN "emptySource"
                   ELSE IF ModuleAt(FirstBad).Kind \notin {"terraform", "packer"} THEN "wrongKind"
                   ELSE "invalidOutput")
            /\ ModulesResult.msg = "invalidOutput" =>
                  \E j \in MissingOutputs(FirstBad) :
                      /\ \A i \in MissingOutputs(FirstBad) : j <= i
                      /\ ModulesResult.arg = <<ModuleAt(FirstBad).ID, ModuleAt(FirstBad).Outputs[j]>>

\* the second of three modules requests two outputs its schema lacks, after one
\* it has: validateModules has returned the invalid-output error for it
C10_Witness ==
    /\ ModulesReturned
    /\ Len(Positions) >= 3
    /\ Len(examined) = 2
    /\ ModulesResult.msg = "invalidOutput"
    /\ Cardinality(MissingOutputs(2)) = 2
    /\ 1 \notin MissingOutputs(2)

-----------------------------------------------------------------------------
(* C11 *)

DeclaredInputs == {args.info.Inputs[k].Name : k \in 1..Len(args.info.Inputs)}
ExtraSettings == DOMAIN args.mod.Settings \ DeclaredInputs
UnsetRequired ==
    {args.info.Inputs[k].Name : k \in {j \in 1..Len(args.info.Inputs) : args.info.Inputs[j].Required}}
        \ DOMAIN args.mod.Settings

\* C11: validateSettings(module, schema) returns nil exactly when every key
\* of Settings is a declared input name; otherwise it returns the
\* extra-setting error naming the module ID and an undeclared key (the only
\* one, when there is one), whatever value the key has; a required input
\* that has no setting never makes it fail.
C11_ValidateSettings ==
    pc = "returned" =>
        /\ (ret = NoErr) <=> (ExtraSettings = {})
        /\ ExtraSettings # {} =>
              \E k \in ExtraSettings : ret = Err("extraSetting", <<args.mod.ID, k>>)
        /\ (ExtraSettings = {} /\ UnsetRequired # {}) => ret = NoErr

\* an undeclared key holding nil is reported, next to a required input left unset
C11_Witness ==
    /\ pc = "returned"
    /\ ExtraSettings = {"c"}
    /\ args.mod.Settings["c"] = NilVal
    /\ UnsetRequired # {}
    /\ ret = Err("extraSetting", <<args.mod.ID, "c">>)

-----------------------------------------------------------------------------
(* C12 *)

\* C12: starting from the zero Dict, after any Set calls and any changes to
\* maps that Items returned: Has(k) is true exactly for the keys that were Set,
\* Get(k) is the value of the last Set(k) and cty.NilVal for any other key,
\* Items returns a new, non-nil map holding exactly the stored pairs, and no
\* operation has panicked. `stored` changes in Set only, so a change to a
\* returned map that reached the Dict would break the equalities.
C12_DictLaws ==
    /\ pc # "panic"
    /\ \A k \in DictKeys :
          /\ Has(dict, heap, k) <=> k \in DOMAIN stored
          /\ Get(dict, heap, k) = IF k \in DOMAIN stored THEN stored[k] ELSE NilVal
    /\ LET r == Items(dict, heap)
       IN /\ r.m # 0
          /\ r.m # dict.m
          /\ r.m \notin items
          /\ r.heap[r.m] = stored
          /\ \A k \in DictKeys : Get(dict, r.heap, k) = Get(dict, heap, k)
    /\ dict.m = 0 => stored = EmptyMap

\* a key was Set, and a map Items returned has since been given a key the
\* Dict never had
C12_Witness ==
    /\ pc = "dict"
    /\ stored # EmptyMap
    /\ \E a \in items : DOMAIN heap[a] \ DOMAIN stored # {}

====
